---- MODULE Spec2Model ----
(***************************************************************************)
(* The tool-orchestration loop of the LangChain weather application       *)
(* (src/weather_app.py): session set-up (connect_to_mcp, setup_agent) and *)
(* WeatherApp.ask, the bounded loop that alternates between the reasoning  *)
(* engine (self.llm.ainvoke) and the tools the engine asks for            *)
(* (tool.ainvoke -> call_mcp_tool -> session.call_tool).                  *)
(*                                                                         *)
(* The engine and the tool host are external: what they answer is a       *)
(* nondeterministic input.  A run of ask() is suspended only at its two   *)
(* awaits (engine invocation, tool invocation); everything the coroutine  *)
(* does between two awaits is one atomic step of the model.               *)
(***************************************************************************)
EXTENDS Integers, Sequences, FiniteSets, TLC

VARIABLES
    app,    \* the WeatherApp object: session, llm, tools (+ set-up history)
    run,    \* run[r]: the frame of one ask() call (its locals and position)
    env     \* the environment's bookkeeping: the variety spent so far, and
            \* what the caller of each frame passed and saw (history)

vars == <<app, run, env>>

----------------------------------------------------------------------------
(* Bounds of the model *)

\* rounds of one model execution in which the engine or the tool host may
\* leave the plain behaviour (one known tool call, answered with text)
MaxVaried == 1

(* Program constants *)

\* for _ in range(10)
MaxRounds == 10

----------------------------------------------------------------------------
(* Texts *)

\* system_msg, the fixed instructional text (abridged: it is one constant)
SystemMsg == "You are a helpful weather assistant. ..."

Apology == "Sorry, I couldn't process your request. Please try again."

NotInitialized == "Agent not initialized"

NotConnected == "Not connected to MCP server"

\* f"Tool {tool_name} not found"
NotFoundText(tool_name) == "Tool " \o tool_name \o " not found"

\* f"Error executing tool: {str(e)}"
ErrorText(m) == "Error executing tool: " \o m

----------------------------------------------------------------------------
(* The tool host (mcp_server.py) and the catalog built from it *)

\* a Tool as list_tools() describes it.  inputSchema is the schema dict with
\* the keys it has: "properties" (the declared property names, in the dict's
\* order) and "required" (a list of names) may each be missing
McpTool(name, inputSchema) == [name |-> name, inputSchema |-> inputSchema]

\* the tools of mcp_server.py, in order
ServerTools ==
    <<McpTool("get_current_weather",
              [properties |-> <<"city">>, required |-> <<"city">>]),
      McpTool("get_forecast",
              [properties |-> <<"city">>, required |-> <<"city">>]),
      McpTool("list_available_cities", [properties |-> <<>>])>>

\* dict.get(key, default)
Get(dict, key, default) == IF key \in DOMAIN dict THEN dict[key] ELSE default

\* x in list
In(x, list) == \E n \in 1..Len(list) : list[n] = x

\* a field of a pydantic model: (str, Field(description=...)) has no default
\* and is required, (str, Field(default=None, description=...)) is optional
RequiredField(name) ==
    [name |-> name, type |-> "str", required |-> TRUE, default |-> "undefined"]

OptionalField(name) ==
    [name |-> name, type |-> "str", required |-> FALSE, default |-> "None"]

\* class WeatherInput(BaseModel): city: str = Field(description=...)
WeatherInput == [model |-> "WeatherInput", fields |-> <<RequiredField("city")>>]

\* class EmptyInput(BaseModel): pass
EmptyInput == [model |-> "EmptyInput", fields |-> <<>>]

\* the dynamic model of the fallback branch: one field per property
DynamicInput(mcp_tool, properties, required) ==
    [model |-> mcp_tool.name \o "_input",
     fields |-> [n \in 1..Len(properties) |->
                    IF In(properties[n], required)
                    THEN RequiredField(properties[n])
                    ELSE OptionalField(properties[n])]]

\* a schema without properties turned into one required field per name of
\* its required list
get_args_schema_FromRequired(mcp_tool) ==
    LET properties == Get(mcp_tool.inputSchema, "properties", <<>>)
        required == Get(mcp_tool.inputSchema, "required", <<>>)
    IN  IF In("city", properties)
        THEN WeatherInput
        ELSE IF properties = <<>>
             THEN DynamicInput(mcp_tool, required, required)
             ELSE DynamicInput(mcp_tool, properties, required)

\* every field of the fallback branch made required
get_args_schema_AllRequired(mcp_tool) ==
    LET properties == Get(mcp_tool.inputSchema, "properties", <<>>)
        required == Get(mcp_tool.inputSchema, "required", <<>>)
    IN  IF In("city", properties)
        THEN WeatherInput
        ELSE IF properties = <<>>
             THEN EmptyInput
             ELSE DynamicInput(mcp_tool, properties, properties)

\* "city" treated like any other property
get_args_schema_CityNotSpecial(mcp_tool) ==
    LET properties == Get(mcp_tool.inputSchema, "properties", <<>>)
        required == Get(mcp_tool.inputSchema, "required", <<>>)
    IN  IF properties = <<>>
        THEN EmptyInput
        ELSE DynamicInput(mcp_tool, properties, required)

\* _get_args_schema: WeatherInput when "city" is declared, EmptyInput when
\* nothing is, a model built from the properties otherwise
get_args_schema(mcp_tool) ==
    LET properties == Get(mcp_tool.inputSchema, "properties", <<>>)
        required == Get(mcp_tool.inputSchema, "required", <<>>)
    IN  IF In("city", properties)
        THEN WeatherInput
        ELSE IF properties = <<>>
             THEN EmptyInput
             ELSE DynamicInput(mcp_tool, properties, required)

\* create_langchain_tools: one tool per MCP tool, same name, same order, with
\* the args schema derived from its input schema
create_langchain_tools(mcp_tools) ==
    [n \in 1..Len(mcp_tools) |->
        [name |-> mcp_tools[n].name,
         args_schema |-> get_args_schema(mcp_tools[n])]]

\* a lookup that falls back to the first tool of the catalog
FindToolDefaultsToFirst(tools, tool_name) ==
    IF \E n \in 1..Len(tools) : tools[n].name = tool_name
    THEN CHOOSE n \in 1..Len(tools) :
            /\ tools[n].name = tool_name
            /\ \A m \in 1..(n - 1) : tools[m].name # tool_name
    ELSE 1

\* for tool in self.tools: if tool.name == tool_name: ... break
\* the position of the first tool of that name, 0 when there is none
FindTool(tools, tool_name) ==
    IF \E n \in 1..Len(tools) : tools[n].name = tool_name
    THEN CHOOSE n \in 1..Len(tools) :
            /\ tools[n].name = tool_name
            /\ \A m \in 1..(n - 1) : tools[m].name # tool_name
    ELSE 0

----------------------------------------------------------------------------
(* Turns of the conversation log (the dicts and messages of `messages`) *)

Turn(role, content, tool_calls, tool_call_id) ==
    [role |-> role, content |-> content,
     tool_calls |-> tool_calls, tool_call_id |-> tool_call_id]

SystemTurn == Turn("system", SystemMsg, <<>>, "")

UserTurn(question) == Turn("user", question, <<>>, "")

\* messages.append(response): the engine's AIMessage
AssistantTurn(response) ==
    Turn("assistant", response.content, response.tool_calls, "")

\* {"role": "tool", "content": str(tool_result), "tool_call_id": tool_call["id"]}
ToolTurn(tool_call, tool_result) ==
    Turn("tool", tool_result, <<>>, tool_call.id)

\* messages = [system, user]
InitialMessages(question) == <<SystemTurn, UserTurn(question)>>

\* the call ids of the latest Assistant turn that no later turn answers
PendingIds(log) ==
    IF \A q \in 1..Len(log) : log[q].role # "assistant"
    THEN {}
    ELSE LET j == CHOOSE q \in 1..Len(log) :
                     /\ log[q].role = "assistant"
                     /\ \A q2 \in (q + 1)..Len(log) : log[q2].role # "assistant"
         IN  {log[j].tool_calls[n].id : n \in 1..Len(log[j].tool_calls)}
             \ {log[q].tool_call_id : q \in (j + 1)..Len(log)}

\* a ToolResult turn that answers no pending request of the log
Orphan(log, turn) ==
    turn.role = "tool" /\ turn.tool_call_id \notin PendingIds(log)

\* an append that refuses an orphan ToolResult and leaves the log as it is
AppendTurnRejectsOrphan(messages, turn) ==
    IF Orphan(messages, turn) THEN messages ELSE Append(messages, turn)

\* list.append: unconditional
AppendTurn(messages, turn) == Append(messages, turn)

----------------------------------------------------------------------------
(* The inputs the environment draws from *)

Runs == {"r1", "r2"}

\* run_interactive and example.py await each ask() before the next one
SeqRuns == {"r1"}

Questions == {"weather in Paris?", "weather in Tokyo?"}

PlainQuestion == "weather in Paris?"

FinalTexts == {"Paris: Cloudy", "It's 68F in Tokyo."}

\* a tool of the catalog and a name that is in no catalog
KnownTool == "get_forecast"

UnknownTool == "get_uv_index"

RequestNames == {KnownTool, UnknownTool}

CallIds == {"c1", "c2"}

ToolCall(name, id) == [name |-> name, id |-> id, args |-> "tokyo"]

\* the tool-call lists an Assistant turn may carry: one request, or two
\* requests with distinct call ids
CallLists ==
    {<<ToolCall(n, "c1")>> : n \in RequestNames}
    \cup {<<ToolCall(n1, "c2"), ToolCall(n2, "c1")>> :
             n1 \in RequestNames, n2 \in RequestNames}

PlainCalls == <<ToolCall(KnownTool, "c1")>>

Response(content, tool_calls) == [content |-> content, tool_calls |-> tool_calls]

FinalResponses == {Response(t, <<>>) : t \in FinalTexts}

CallResponses == {Response("", cs) : cs \in CallLists}

HostText == "{\"forecast\": []}"

\* other texts call_tool may answer with: the empty text, and a text that
\* reads like ask()'s own answer to an unknown tool name
OtherHostTexts == {"", "Tool get_forecast not found"}

HostFaults == {"timeout"}

----------------------------------------------------------------------------
(* The frame of one ask() call *)

NoResult == [kind |-> "none", value |-> ""]

NoResponse == Response("", <<>>)

NoTurn == Turn("", "", <<>>, "")

\* pc, question, messages, i (iterations of the for loop begun), response and
\* k (the request being handled) are the coroutine's position and locals;
\* result is what ask() returned or raised.  The rest is history kept for the
\* properties: engineCalls counts llm.ainvoke calls, toolCalls lists the
\* calls forwarded to the tool host, outcomes what the host answered,
\* inflight the invocations awaited and not yet returned, probe the turn
\* handed to a direct append, sent the log as it was handed to the latest
\* llm.ainvoke, engineFault the fault llm.ainvoke raised in this run, if any.
IdleRun ==
    [pc |-> "idle", question |-> "", messages |-> <<>>, i |-> 0,
     response |-> NoResponse, k |-> 0, result |-> NoResult,
     engineCalls |-> 0, toolCalls |-> <<>>, outcomes |-> <<>>,
     inflight |-> {}, probe |-> NoTurn, sent |-> <<>>, engineFault |-> ""]

InFlight(st) == st.pc \in {"engine", "tool"}

\* return <value>
Return(st, value) ==
    [st EXCEPT !.pc = "done", !.result = [kind |-> "returned", value |-> value]]

\* an exception leaves ask()
Raise(st, message) ==
    [st EXCEPT !.pc = "failed", !.result = [kind |-> "raised", value |-> message]]

\* range(10) read as ten passes and one more
LoopHeadInclusive(st) ==
    IF st.i <= MaxRounds
    THEN [st EXCEPT !.i = @ + 1, !.pc = "engine",
                    !.engineCalls = @ + 1,
                    !.inflight = @ \cup {<<"engine", st.i + 1>>},
                    !.sent = st.messages]
    ELSE Return(st, Apology)

\* the exhausted loop raising instead of returning the apology
LoopHeadRaises(st) ==
    IF st.i < MaxRounds
    THEN [st EXCEPT !.i = @ + 1, !.pc = "engine",
                    !.engineCalls = @ + 1,
                    !.inflight = @ \cup {<<"engine", st.i + 1>>},
                    !.sent = st.messages]
    ELSE Raise(st, Apology)

\* the head of `for _ in range(10)`: another iteration starts with the engine
\* invocation, or the loop is exhausted and ask() returns the apology
LoopHead(st) ==
    IF st.i < MaxRounds
    THEN [st EXCEPT !.i = @ + 1, !.pc = "engine",
                    !.engineCalls = @ + 1,
                    !.inflight = @ \cup {<<"engine", st.i + 1>>},
                    !.sent = st.messages]
    ELSE Return(st, Apology)

\* the result put right behind the Assistant turn instead of at the end
AppendResultBehindAssistant(st, tool_call, tool_result) ==
    LET log == st.messages
        j == CHOOSE q \in 1..Len(log) :
                /\ log[q].role = "assistant"
                /\ \A q2 \in (q + 1)..Len(log) : log[q2].role # "assistant"
    IN  [st EXCEPT !.messages = SubSeq(log, 1, j)
                                \o <<ToolTurn(tool_call, tool_result)>>
                                \o SubSeq(log, j + 1, Len(log))]

\* messages.append({"role": "tool", ...})
AppendResult(st, tool_call, tool_result) ==
    [st EXCEPT !.messages = AppendTurn(@, ToolTurn(tool_call, tool_result))]

\* an unknown name skipped without a result
RECURSIVE DispatchSkipsUnknown(_, _, _)
DispatchSkipsUnknown(st, tools, k) ==
    IF k > Len(st.response.tool_calls)
    THEN LoopHead(st)
    ELSE LET tool_call == st.response.tool_calls[k]
         IN  IF FindTool(tools, tool_call.name) = 0
             THEN DispatchSkipsUnknown(st, tools, k + 1)
             ELSE [st EXCEPT !.pc = "tool", !.k = k,
                             !.toolCalls = Append(@, [name |-> tool_call.name,
                                                      id |-> tool_call.id,
                                                      args |-> tool_call.args]),
                             !.inflight = @ \cup {<<"tool", k>>}]

\* for tool_call in response.tool_calls, from the k-th request on, up to the
\* next await: an unknown name is answered on the spot, a known tool is
\* invoked (the frame suspends in tool.ainvoke); after the last request the
\* outer loop goes on
RECURSIVE Dispatch(_, _, _)
Dispatch(st, tools, k) ==
    IF k > Len(st.response.tool_calls)
    THEN LoopHead(st)
    ELSE LET tool_call == st.response.tool_calls[k]
         IN  IF FindTool(tools, tool_call.name) = 0
             THEN Dispatch(AppendResult(st, tool_call, NotFoundText(tool_call.name)),
                           tools, k + 1)
             ELSE [st EXCEPT !.pc = "tool", !.k = k,
                             !.toolCalls = Append(@, [name |-> tool_call.name,
                                                      id |-> tool_call.id,
                                                      args |-> tool_call.args]),
                             !.inflight = @ \cup {<<"tool", k>>}]

\* the round limit checked as soon as the last response is in: its tool
\* calls are dropped
AfterEngineDropsLastCalls(st, tools, response) ==
    LET st1 == [st EXCEPT !.messages = AppendTurn(@, AssistantTurn(response)),
                          !.response = response,
                          !.inflight = @ \ {<<"engine", st.i>>}]
    IN  IF response.tool_calls = <<>>
        THEN Return(st1, response.content)
        ELSE IF st.i = MaxRounds
             THEN Return(st1, Apology)
             ELSE Dispatch(st1, tools, 1)

\* the log cut back to its first two turns before the response is appended
AfterEngineTrimsLog(st, tools, response) ==
    LET st1 == [st EXCEPT !.messages = AppendTurn(InitialMessages(st.question),
                                                  AssistantTurn(response)),
                          !.response = response,
                          !.inflight = @ \ {<<"engine", st.i>>}]
    IN  IF response.tool_calls = <<>>
        THEN Return(st1, response.content)
        ELSE Dispatch(st1, tools, 1)

\* the `if not response.tool_calls: return` left out
AfterEngineKeepsLooping(st, tools, response) ==
    Dispatch([st EXCEPT !.messages = AppendTurn(@, AssistantTurn(response)),
                        !.response = response,
                        !.inflight = @ \ {<<"engine", st.i>>}],
             tools, 1)

\* response = await self.llm.ainvoke(messages) has returned
AfterEngine(st, tools, response) ==
    LET st1 == [st EXCEPT !.messages = AppendTurn(@, AssistantTurn(response)),
                          !.response = response,
                          !.inflight = @ \ {<<"engine", st.i>>}]
    IN  IF response.tool_calls = <<>>
        THEN Return(st1, response.content)
        ELSE Dispatch(st1, tools, 1)

\* the engine's fault caught like a tool's, appended as content and returned
AfterEngineFaultAnswered(st, message) ==
    Return([st EXCEPT !.inflight = @ \ {<<"engine", st.i>>},
                      !.messages = AppendTurn(@, Turn("assistant", ErrorText(message),
                                                      <<>>, ""))],
           ErrorText(message))

\* response = await self.llm.ainvoke(messages) has raised: there is no
\* try/except around it, the exception leaves ask()
AfterEngineFault(st, message) ==
    Raise([st EXCEPT !.inflight = @ \ {<<"engine", st.i>>}], message)

\* what the tool host does with a call: it returns text or raises a fault
HostReturns(text) == [kind |-> "text", value |-> text]

HostRaises(m) == [kind |-> "fault", value |-> m]

\* `if not tool_result` in place of `if tool_result is None`: an empty text
\* taken for no result at all
AfterToolEmptyIsMissing(st, tools, outcome) ==
    LET st1 == [st EXCEPT !.inflight = @ \ {<<"tool", st.k>>}]
        tool_call == st1.response.tool_calls[st.k]
        tool_result == IF outcome.kind = "fault"
                       THEN ErrorText(outcome.value)
                       ELSE IF outcome.value = ""
                            THEN NotFoundText(tool_call.name)
                            ELSE outcome.value
    IN  Dispatch(AppendResult(st1, tool_call, tool_result), tools, st.k + 1)

\* the tool invocation without its try/except: a fault leaves ask()
AfterToolPropagates(st, tools, outcome) ==
    LET st1 == [st EXCEPT !.inflight = @ \ {<<"tool", st.k>>}]
    IN  IF outcome.kind = "fault"
        THEN Raise(st1, outcome.value)
        ELSE Dispatch(AppendResult(st1, st1.response.tool_calls[st.k], outcome.value),
                      tools, st.k + 1)

\* try: tool_result = await tool.ainvoke(tool_args)
\* except Exception as e: tool_result = f"Error executing tool: {str(e)}"
\* then the result is appended and the for loop goes on
AfterTool(st, tools, outcome) ==
    LET st1 == [st EXCEPT !.inflight = @ \ {<<"tool", st.k>>}]
        tool_result == IF outcome.kind = "fault"
                       THEN ErrorText(outcome.value)
                       ELSE outcome.value
    IN  Dispatch(AppendResult(st1, st1.response.tool_calls[st.k], tool_result),
                 tools, st.k + 1)

\* the conversation kept from one ask() to the next
StartAskKeepsHistory(prev, llm, question) ==
    LET st == [IdleRun EXCEPT !.question = question]
    IN  IF llm = "none"
        THEN Raise(st, NotInitialized)
        ELSE LoopHead([st EXCEPT !.messages =
                          IF prev.messages = <<>>
                          THEN InitialMessages(question)
                          ELSE Append(prev.messages, UserTurn(question))])

\* ask() without its `if not self.llm` guard
StartAskUnchecked(prev, llm, question) ==
    LoopHead([IdleRun EXCEPT !.question = question,
                             !.messages = InitialMessages(question)])

\* ask(question) up to its first await, in the frame that held prev: the
\* llm guard, then fresh locals (nothing of prev is kept) and the first
\* pass of the loop
StartAsk(prev, llm, question) ==
    LET st == [IdleRun EXCEPT !.question = question]
    IN  IF llm = "none"
        THEN Raise(st, NotInitialized)
        ELSE LoopHead([st EXCEPT !.messages = InitialMessages(question)])

----------------------------------------------------------------------------
(* Initial state: WeatherApp.__init__ *)

\* the environment at the start: nothing spent, nothing asked; catalog is
\* what the tool host will answer to list_tools()
InitEnv(catalog) ==
    [varied |-> 0, epoch |-> [r \in Runs |-> 0],
     charged |-> [r \in Runs |-> FALSE],
     asked |-> [r \in Runs |-> ""], prior |-> FALSE,
     setupAtAsk |-> [r \in Runs |-> "not_called"],
     catalog |-> catalog]

Init ==
    /\ app = [session |-> "none", llm |-> "none", tools |-> <<>>,
              setup |-> "not_called", listToolsCalls |-> 0]
    /\ run = [r \in Runs |-> IdleRun]
    /\ env = InitEnv(ServerTools)

----------------------------------------------------------------------------
(* Session set-up *)

\* connect_to_mcp
ConnectToMcp ==
    /\ app.session = "none"
    /\ app.setup = "not_called"
    /\ app' = [app EXCEPT !.session = "open"]
    /\ UNCHANGED <<run, env>>

\* setup_agent on an app that never connected: get_mcp_tools raises
SetupNotConnected ==
    /\ app.setup = "not_called"
    /\ app.session = "none"
    /\ app' = [app EXCEPT !.setup = "not_connected"]
    /\ UNCHANGED <<run, env>>

\* setup_agent: session.list_tools() fails; the fault leaves setup_agent
SetupCatalogFault ==
    /\ app.setup = "not_called"
    /\ app.session = "open"
    /\ app' = [app EXCEPT !.setup = "catalog_unavailable",
                          !.listToolsCalls = @ + 1]
    /\ UNCHANGED <<run, env>>

\* setup_agent: the catalog is fetched and converted, ChatAnthropic(...) raises
SetupEngineFault ==
    /\ app.setup = "not_called"
    /\ app.session = "open"
    /\ app' = [app EXCEPT !.setup = "engine_unavailable",
                          !.listToolsCalls = @ + 1,
                          !.tools = create_langchain_tools(env.catalog)]
    /\ UNCHANGED <<run, env>>

\* setup_agent succeeds
SetupAgent ==
    /\ app.setup = "not_called"
    /\ app.session = "open"
    /\ app' = [app EXCEPT !.setup = "ok",
                          !.listToolsCalls = @ + 1,
                          !.tools = create_langchain_tools(env.catalog),
                          !.llm = "bound"]
    /\ UNCHANGED <<run, env>>

----------------------------------------------------------------------------
(* ask() *)

\* one list kept on the WeatherApp object and used by every call
MessagesOfApp(r) == "self"

\* messages = [...] makes a new list in each call of ask(): the list a frame
\* appends to is its own
MessagesOf(r) == r

\* frame r steps to st; a frame that appends to the same list sees the list
\* as r left it
Store(r, st) ==
    [q \in Runs |->
        IF q = r
        THEN st
        ELSE IF MessagesOf(q) = MessagesOf(r)
             THEN [run[q] EXCEPT !.messages = st.messages]
             ELSE run[q]]

\* the round of run r leaves the plain behaviour: charged once per round
Charge(r) ==
    IF env.charged[r]
    THEN env
    ELSE [env EXCEPT !.varied = @ + 1, !.charged[r] = TRUE]

MayVary(r) == env.charged[r] \/ env.varied < MaxVaried

\* history: the host's outcome for the k-th request of round i
Noted(st, outcome) ==
    [st EXCEPT !.outcomes = Append(@, [i |-> st.i, k |-> st.k,
                                       kind |-> outcome.kind,
                                       value |-> outcome.value])]

\* a caller starts ask(question) in frame r
Ask(r, question) ==
    /\ ~InFlight(run[r])
    /\ question = PlainQuestion \/ env.varied < MaxVaried
    /\ run' = Store(r, StartAsk(run[r], app.llm, question))
    /\ env' = [env EXCEPT !.epoch[r] = 1 - @,
                          !.charged[r] = FALSE,
                          !.varied = IF question = PlainQuestion THEN @ ELSE @ + 1,
                          !.asked[r] = question,
                          !.setupAtAsk[r] = app.setup,
                          !.prior = @ \/ Len(run[r].messages) > 2]
    /\ UNCHANGED app

\* the engine answers with a final message
EngineFinal(r, response) ==
    /\ run[r].pc = "engine"
    /\ response \in FinalResponses
    /\ run' = Store(r, AfterEngine(run[r], app.tools, response))
    /\ UNCHANGED <<app, env>>

\* the engine answers with tool-call requests
EngineCalls(r, response) ==
    /\ run[r].pc = "engine"
    /\ response \in CallResponses
    /\ response.tool_calls = PlainCalls \/ env.varied < MaxVaried
    /\ run' = Store(r, AfterEngine(run[r], app.tools, response))
    /\ env' = IF response.tool_calls = PlainCalls
              THEN [env EXCEPT !.charged[r] = FALSE]
              ELSE [env EXCEPT !.charged[r] = TRUE, !.varied = @ + 1]
    /\ UNCHANGED app

\* the engine invocation raises: nothing in ask() catches it
EngineFault(r) ==
    /\ run[r].pc = "engine"
    /\ run' = Store(r, AfterEngineFault(
                          [run[r] EXCEPT !.engineFault = "engine fault"],
                          "engine fault"))
    /\ UNCHANGED <<app, env>>

\* the tool host returns text
ToolReturn(r) ==
    /\ run[r].pc = "tool"
    /\ run' = Store(r, AfterTool(Noted(run[r], HostReturns(HostText)), app.tools,
                                 HostReturns(HostText)))
    /\ UNCHANGED <<app, env>>

\* the tool host returns another text than the usual payload
ToolReturnsText(r, text) ==
    /\ run[r].pc = "tool"
    /\ text \in OtherHostTexts
    /\ env.varied < MaxVaried
    /\ run' = Store(r, AfterTool(Noted(run[r], HostReturns(text)), app.tools,
                                 HostReturns(text)))
    /\ env' = [env EXCEPT !.varied = @ + 1, !.charged[r] = TRUE]
    /\ UNCHANGED app

\* the tool host raises a fault with message m: except Exception as e
ToolFault(r, m) ==
    /\ run[r].pc = "tool"
    /\ m \in HostFaults
    /\ MayVary(r)
    /\ run' = Store(r, AfterTool(Noted(run[r], HostRaises(m)), app.tools,
                                 HostRaises(m)))
    /\ env' = Charge(r)
    /\ UNCHANGED app

----------------------------------------------------------------------------
(* One session, one caller awaiting each ask() before the next *)

Next ==
    \/ ConnectToMcp
    \/ SetupNotConnected
    \/ SetupCatalogFault
    \/ SetupEngineFault
    \/ SetupAgent
    \/ \E r \in SeqRuns, q \in Questions : Ask(r, q)
    \/ \E r \in SeqRuns, resp \in FinalResponses : EngineFinal(r, resp)
    \/ \E r \in SeqRuns, resp \in CallResponses : EngineCalls(r, resp)
    \/ \E r \in SeqRuns : EngineFault(r)
    \/ \E r \in SeqRuns : ToolReturn(r)
    \/ \E r \in SeqRuns, m \in HostFaults : ToolFault(r, m)

Spec == Init /\ [][Next]_vars

TypeOK ==
    /\ app.session \in {"none", "open"}
    /\ app.llm \in {"none", "bound"}
    /\ \A r \in Runs :
          /\ run[r].pc \in {"idle", "engine", "tool", "done", "failed"}
          /\ run[r].i \in 0..MaxRounds

----------------------------------------------------------------------------
(* A session that is put one question, with a tool host that answers with *)
(* any text                                                                *)

NextHost ==
    \/ ConnectToMcp
    \/ SetupAgent
    \/ \E r \in SeqRuns : run[r].pc = "idle" /\ Ask(r, PlainQuestion)
    \/ \E r \in SeqRuns, resp \in FinalResponses : EngineFinal(r, resp)
    \/ \E r \in SeqRuns, resp \in CallResponses : EngineCalls(r, resp)
    \/ \E r \in SeqRuns : ToolReturn(r)
    \/ \E r \in SeqRuns, text \in OtherHostTexts : ToolReturnsText(r, text)
    \/ \E r \in SeqRuns, m \in HostFaults : ToolFault(r, m)

SpecHost == Init /\ [][NextHost]_vars

----------------------------------------------------------------------------
(* Two callers on one WeatherApp, each putting one question: the two runs  *)
(* of ask() are both under way and interleave at their awaits              *)

QuestionOf(r) == IF r = "r1" THEN PlainQuestion ELSE "weather in Tokyo?"

NextConcurrent ==
    \/ ConnectToMcp
    \/ SetupAgent
    \/ \E r \in Runs : run[r].pc = "idle" /\ Ask(r, QuestionOf(r))
    \/ \E r \in Runs, resp \in FinalResponses : EngineFinal(r, resp)
    \/ \E r \in Runs, resp \in CallResponses : EngineCalls(r, resp)
    \/ \E r \in Runs : EngineFault(r)
    \/ \E r \in Runs : ToolReturn(r)
    \/ \E r \in Runs, m \in HostFaults : ToolFault(r, m)

SpecConcurrent == Init /\ [][NextConcurrent]_vars

----------------------------------------------------------------------------
(* The log's append on its own: any ToolResult turn handed to                *)
(* messages.append while a run's log is being built                          *)

ProbeTurns == {Turn("tool", HostText, <<>>, id) : id \in CallIds \cup {"c9"}}

AppendDirect(r, turn) ==
    /\ InFlight(run[r])
    /\ turn \in ProbeTurns
    /\ run' = Store(r, [run[r] EXCEPT !.messages = AppendTurn(@, turn),
                                       !.probe = turn,
                                       !.pc = "probe",
                                       !.inflight = {}])
    /\ UNCHANGED <<app, env>>

NextAppend ==
    \/ Next
    \/ \E r \in SeqRuns, turn \in ProbeTurns : AppendDirect(r, turn)

SpecAppend == Init /\ [][NextAppend]_vars

----------------------------------------------------------------------------
(* The same session with an engine that answers every invocation with an   *)
(* Assistant turn, and an engine and tool host that do answer: an awaited  *)
(* invocation that can return eventually does.                             *)

Responds(r) ==
    \/ \E resp \in FinalResponses : EngineFinal(r, resp)
    \/ \E resp \in CallResponses : EngineCalls(r, resp)
    \/ ToolReturn(r)
    \/ \E m \in HostFaults : ToolFault(r, m)

NextLive ==
    \/ ConnectToMcp
    \/ SetupNotConnected
    \/ SetupCatalogFault
    \/ SetupEngineFault
    \/ SetupAgent
    \/ \E r \in SeqRuns, q \in Questions : Ask(r, q)
    \/ \E r \in SeqRuns : Responds(r)

LiveSpec == Init /\ [][NextLive]_vars /\ \A r \in SeqRuns : WF_vars(Responds(r))

----------------------------------------------------------------------------
(* Set-up against a tool host whose tools are discovered, not known in      *)
(* advance: list_tools() returns one tool with any input schema             *)

\* the longest "properties" dict and the longest "required" list drawn
MaxProperties == 2

MaxRequired == 2

\* property names a schema may declare; "zip" is only ever named as required
PropertyNames == {"city", "days", "units"}

RequiredNames == PropertyNames \cup {"zip"}

\* the key orders of a dict: sequences without repetition
KeyLists ==
    {ks \in UNION {[1..n -> PropertyNames] : n \in 0..MaxProperties} :
        \A p, q \in 1..Len(ks) : ks[p] = ks[q] => p = q}

\* the lists a schema may carry as "required": any names, repeated or not
RequiredLists == UNION {[1..n -> RequiredNames] : n \in 0..MaxRequired}

\* the inputSchema dicts: each of the two keys present or missing
InputSchemas ==
    {[properties |-> ks, required |-> rs] : ks \in KeyLists, rs \in RequiredLists}
    \cup {[properties |-> ks] : ks \in KeyLists}
    \cup {[required |-> rs] : rs \in RequiredLists}
    \cup {[type |-> "object"]}

DiscoveredCatalogs == {<<McpTool("lookup", s)>> : s \in InputSchemas}

InitDiscovered ==
    /\ app = [session |-> "none", llm |-> "none", tools |-> <<>>,
              setup |-> "not_called", listToolsCalls |-> 0]
    /\ run = [r \in Runs |-> IdleRun]
    /\ env \in {InitEnv(catalog) : catalog \in DiscoveredCatalogs}

NextDiscovered ==
    \/ ConnectToMcp
    \/ SetupAgent

SpecDiscovered == InitDiscovered /\ [][NextDiscovered]_vars

----------------------------------------------------------------------------
(* Reading a conversation log *)

AssistantPositions(log) == {j \in 1..Len(log) : log[j].role = "assistant"}

\* the turns that follow the Assistant turn at j, up to the next Assistant turn
BlockOf(log, j) ==
    {p \in (j + 1)..Len(log) : \A q \in (j + 1)..p : log[q].role # "assistant"}

\* the position of the n-th Assistant turn
AssistantAt(log, n) ==
    CHOOSE j \in AssistantPositions(log) :
        Cardinality({q \in AssistantPositions(log) : q <= j}) = n

CatalogNames == {app.tools[n].name : n \in 1..Len(app.tools)}

----------------------------------------------------------------------------
(* C1: whatever the engine answers (also when it asks for a tool in every *)
(* round) and whether the tool host returns text or raises, a run of      *)
(* ask() that is under way eventually reaches DONE, and at no point of    *)
(* the run have more than 10 engine invocations been made.                *)

C1_AtMostTenEngineCalls == \A r \in Runs : run[r].engineCalls <= 10

C1_Terminates ==
    /\ []C1_AtMostTenEngineCalls
    /\ \A r \in SeqRuns : InFlight(run[r]) ~> (run[r].pc = "done")

\* a run that met a tool fault and used up all ten rounds has ended
C1_Witness ==
    \E r \in Runs :
        /\ run[r].pc = "done"
        /\ run[r].engineCalls = 10
        /\ \E n \in 1..Len(run[r].outcomes) : run[r].outcomes[n].kind = "fault"

----------------------------------------------------------------------------
(* C2: when the engine's Assistant turn carries tool calls in each of     *)
(* rounds 1..10, ask() returns (as a value, not as a raised error) the    *)
(* fixed apology, after exactly 10 engine invocations; there is never an  *)
(* 11th engine invocation.                                                *)

AskedForToolsInTenRounds(st) ==
    /\ Cardinality(AssistantPositions(st.messages)) = 10
    /\ \A j \in AssistantPositions(st.messages) : st.messages[j].tool_calls # <<>>

C2_RoundLimitApology ==
    \A r \in Runs :
        /\ run[r].engineCalls <= 10
        /\ (AskedForToolsInTenRounds(run[r]) /\ run[r].pc # "tool") =>
              /\ run[r].pc = "done"
              /\ run[r].result =
                    [kind |-> "returned",
                     value |-> "Sorry, I couldn't process your request. Please try again."]
              /\ run[r].engineCalls = 10

C2_Witness ==
    \E r \in Runs :
        /\ AskedForToolsInTenRounds(run[r])
        /\ run[r].pc = "done"
        /\ run[r].result.kind = "returned"

----------------------------------------------------------------------------
(* C3: when round k is the first round whose Assistant turn carries no    *)
(* tool call, ask() returns that turn's text after exactly k engine       *)
(* invocations (k = 1: no tool invocation at all), and once ask() has     *)
(* returned nothing more happens in that run: no engine invocation, no    *)
(* tool invocation, no append.                                            *)

C3_FinalAnswer ==
    \A r \in Runs :
        LET log == run[r].messages
        IN  \A j \in AssistantPositions(log) :
                log[j].tool_calls = <<>> =>
                    /\ j = Len(log)
                    /\ run[r].pc = "done"
                    /\ run[r].result = [kind |-> "returned", value |-> log[j].content]
                    /\ run[r].engineCalls = Cardinality(AssistantPositions(log))
                    /\ run[r].inflight = {}
                    /\ Cardinality(AssistantPositions(log)) = 1 =>
                          (run[r].toolCalls = <<>> /\ Len(log) = 3)

\* a frame that is DONE changes only when a caller starts a new ask() in it
C3_DoneIsTerminal ==
    \A r \in Runs :
        run[r].pc = "done" => (run'[r] = run[r] \/ env'.epoch[r] # env.epoch[r])

C3_FinalAnswerEndsRun == []C3_FinalAnswer /\ [][C3_DoneIsTerminal]_vars

\* a tool call in round 1, the final text in round 2
C3_Witness ==
    \E r \in Runs :
        /\ run[r].pc = "done"
        /\ run[r].result.value = "It's 68F in Tokyo."
        /\ run[r].engineCalls = 2
        /\ Len(run[r].toolCalls) = 1

----------------------------------------------------------------------------
(* C4: whenever the engine is invoked, the log it is given has no         *)
(* unanswered request: every Assistant turn with n requests is followed   *)
(* directly by exactly n ToolResult turns, each carrying the call_id of   *)
(* exactly one of its requests, each request answered exactly once -      *)
(* whether the call succeeded, faulted or named an unknown tool.          *)

AnsweredInFull(log, j) ==
    LET calls == log[j].tool_calls
        block == BlockOf(log, j)
    IN  /\ Cardinality(block) = Len(calls)
        /\ \A p \in block :
              /\ log[p].role = "tool"
              /\ Cardinality({n \in 1..Len(calls) :
                                 calls[n].id = log[p].tool_call_id}) = 1
        /\ \A n \in 1..Len(calls) :
              Cardinality({p \in block : log[p].tool_call_id = calls[n].id}) = 1

NoUnansweredRequest(log) ==
    /\ Len(log) >= 2
    /\ log[1].role = "system"
    /\ log[2].role = "user"
    /\ \A p \in 3..Len(log) :
          /\ log[p].role \in {"assistant", "tool"}
          /\ log[p].role = "tool" =>
                \E j \in AssistantPositions(log) : p \in BlockOf(log, j)
    /\ \A j \in AssistantPositions(log) : AnsweredInFull(log, j)

C4_EngineSeesAnsweredLog ==
    \A r \in Runs : run[r].pc = "engine" => NoUnansweredRequest(run[r].messages)

\* the engine is invoked after a round with a faulted and an unknown call
C4_Witness ==
    \E r \in Runs :
        /\ run[r].pc = "engine"
        /\ \E p \in 1..Len(run[r].messages) :
              run[r].messages[p].content = "Error executing tool: timeout"
        /\ \E p \in 1..Len(run[r].messages) :
              run[r].messages[p].content = "Tool get_uv_index not found"

----------------------------------------------------------------------------
(* C5: a request naming a tool that is not in the session's catalog never *)
(* reaches the tool host; its ToolResult carries the text                 *)
(* "Tool <name> not found" and the request's call_id; the run goes on     *)
(* with the remaining requests and the next round.                        *)

Ordinal(log, j) == Cardinality({q \in AssistantPositions(log) : q <= j})

C5_UnknownToolAnsweredLocally ==
    \A r \in Runs :
        LET log == run[r].messages
        IN  /\ \A n \in 1..Len(run[r].toolCalls) :
                  run[r].toolCalls[n].name \in CatalogNames
            /\ \A j \in AssistantPositions(log) :
               \A n \in 1..Len(log[j].tool_calls) :
                  LET call == log[j].tool_calls[n]
                  IN  call.name \notin CatalogNames =>
                        \* not reached yet: an earlier request of the turn is awaited
                        \/ /\ run[r].pc = "tool"
                           /\ Ordinal(log, j) = run[r].i
                           /\ run[r].k < n
                        \/ /\ j + n <= Len(log)
                           /\ log[j + n] =
                                 Turn("tool", "Tool " \o call.name \o " not found",
                                      <<>>, call.id)
                           /\ run[r].result.kind = "raised" =>
                                 run[r].result.value = "engine fault"
                           /\ (j + Len(log[j].tool_calls) <= Len(log)
                                 /\ Ordinal(log, j) < 10) =>
                                 run[r].engineCalls >= Ordinal(log, j) + 1

\* an unknown name first, a known tool second, and a further round
C5_Witness ==
    \E r \in Runs :
        /\ run[r].pc = "engine"
        /\ \E j \in AssistantPositions(run[r].messages) :
              LET calls == run[r].messages[j].tool_calls
              IN  /\ Len(calls) = 2
                  /\ calls[1].name = "get_uv_index"
                  /\ calls[2].name = "get_forecast"
                  /\ run[r].engineCalls > Ordinal(run[r].messages, j)

----------------------------------------------------------------------------
(* C6: a fault with message m raised by the tool host for a catalog tool  *)
(* does not leave ask(): a ToolResult "Error executing tool: m" with the  *)
(* request's call_id is appended, the remaining requests of the turn are  *)
(* still dispatched, and the engine is invoked again in the next round    *)
(* (when fewer than 10 rounds have been used).                            *)

C6_ToolFaultBecomesResult ==
    \A r \in Runs :
    \A n \in 1..Len(run[r].outcomes) :
        LET o == run[r].outcomes[n]
            log == run[r].messages
            j == AssistantAt(log, o.i)
            calls == log[j].tool_calls
        IN  o.kind = "fault" =>
              /\ calls[o.k].name \in CatalogNames
              /\ j + o.k <= Len(log)
              /\ log[j + o.k] =
                    Turn("tool", "Error executing tool: " \o o.value, <<>>, calls[o.k].id)
              /\ run[r].result.kind = "raised" => run[r].result.value = "engine fault"
              /\ \/ run[r].pc = "tool" /\ run[r].i = o.i /\ run[r].k > o.k
                 \/ j + Len(calls) <= Len(log)
              /\ (j + Len(calls) <= Len(log) /\ o.i < 10) =>
                    run[r].engineCalls >= o.i + 1
              /\ (j + Len(calls) <= Len(log) /\ o.i = 10) => run[r].pc = "done"

\* the first of two known tools faulted, the second was still invoked
C6_Witness ==
    \E r \in Runs :
        /\ Len(run[r].outcomes) >= 2
        /\ \E n \in 1..(Len(run[r].outcomes) - 1) :
              /\ run[r].outcomes[n].kind = "fault"
              /\ run[r].outcomes[n].k = 1
              /\ run[r].outcomes[n + 1].k = 2
              /\ run[r].outcomes[n + 1].i = run[r].outcomes[n].i
        /\ run[r].pc = "engine"

----------------------------------------------------------------------------
(* C7: within a round the tool calls are dispatched one at a time in the  *)
(* order the engine listed them: the i-th ToolResult after an Assistant   *)
(* turn answers its i-th request, a tool invocation starts only when all  *)
(* earlier requests of the turn have their ToolResult, and the engine is  *)
(* never invoked while a tool invocation is outstanding.                  *)

LastAssistant(log) ==
    CHOOSE j \in AssistantPositions(log) : \A q \in AssistantPositions(log) : q <= j

C7_SequentialInOrder ==
    \A r \in Runs :
        LET log == run[r].messages
        IN  /\ \A j \in AssistantPositions(log) :
               \A p \in BlockOf(log, j) :
                  /\ p - j <= Len(log[j].tool_calls)
                  /\ log[p].role = "tool"
                  /\ log[p].tool_call_id = log[j].tool_calls[p - j].id
            /\ Cardinality(run[r].inflight) <= 1
            /\ run[r].pc = "tool" =>
                  /\ run[r].inflight = {<<"tool", run[r].k>>}
                  /\ Len(log) = LastAssistant(log) + run[r].k - 1
                  /\ Len(run[r].toolCalls) = Len(run[r].outcomes) + 1
            /\ run[r].pc = "engine" =>
                  /\ run[r].inflight = {<<"engine", run[r].i>>}
                  /\ Len(run[r].toolCalls) = Len(run[r].outcomes)

\* the second of two known tools is awaited, the first has its result
C7_Witness ==
    \E r \in Runs :
        /\ run[r].pc = "tool"
        /\ run[r].k = 2
        /\ run[r].response.tool_calls[1].name = "get_forecast"
        /\ run[r].messages[Len(run[r].messages)].tool_call_id =
              run[r].response.tool_calls[1].id

----------------------------------------------------------------------------
(* C8 as stated: appending a ToolResult whose call_id matches no pending  *)
(* request of the preceding Assistant turn fails with OrphanToolResult    *)
(* and leaves the log unchanged.                                          *)

DirectAppendStep(r) == run[r].pc # "probe" /\ run'[r].pc = "probe"

NoOrphanIn(log) ==
    \A p \in 1..Len(log) : ~Orphan(SubSeq(log, 1, p - 1), log[p])

C8_AskAppendsNoOrphan ==
    \A r \in Runs :
        LET log == run[r].messages
        IN  IF run[r].pc = "probe"
            THEN NoOrphanIn(SubSeq(log, 1, Len(log) - 1))
            ELSE NoOrphanIn(log)

C8_DirectAppendExtends ==
    \A r \in Runs :
        DirectAppendStep(r) =>
            /\ run'[r].messages = Append(run[r].messages, run'[r].probe)
            /\ run'[r].result = run[r].result

----------------------------------------------------------------------------
(* C9: at the first engine invocation of every ask(question) the log is   *)
(* exactly the System turn with the fixed text followed by the User turn  *)
(* carrying question, whatever earlier ask() calls on the session left.   *)

C9_FirstInvocationSeesFreshLog ==
    \A r \in Runs :
        (run[r].pc = "engine" /\ run[r].engineCalls = 1) =>
            run[r].messages = <<Turn("system", SystemMsg, <<>>, ""),
                                Turn("user", env.asked[r], <<>>, "")>>

\* a second ask(), with another question, after an ask() that left a longer log
C9_Witness ==
    \E r \in Runs :
        /\ run[r].pc = "engine"
        /\ run[r].engineCalls = 1
        /\ env.prior
        /\ env.asked[r] = "weather in Tokyo?"

----------------------------------------------------------------------------
(* C10: when fetching the catalog fails in setup_agent, list_tools is not *)
(* tried again, the session has neither engine binding nor tools, and     *)
(* every ask() on it fails before any engine or tool invocation.          *)

C10_CatalogFailureIsFatal ==
    app.setup = "catalog_unavailable" =>
        /\ app.listToolsCalls = 1
        /\ app.llm = "none"
        /\ app.tools = <<>>
        /\ \A r \in Runs :
              /\ run[r].pc \in {"idle", "failed"}
              /\ run[r].engineCalls = 0
              /\ run[r].toolCalls = <<>>
              /\ run[r].messages = <<>>
              /\ run[r].inflight = {}
              /\ run[r].pc = "failed" =>
                    run[r].result = [kind |-> "raised", value |-> "Agent not initialized"]

\* an ask() made after the failed set-up has failed
C10_Witness ==
    /\ app.setup = "catalog_unavailable"
    /\ \E r \in Runs :
          /\ env.setupAtAsk[r] = "catalog_unavailable"
          /\ run[r].pc = "failed"

----------------------------------------------------------------------------
(* C15 as stated: for every request whose tool is in the catalog the      *)
(* appended ToolResult text is the host's returned text unchanged or      *)
(* "Error executing tool: <message>", and the text "Tool <name> not       *)
(* found" is appended only when the tool is absent from the catalog (the  *)
(* host was not contacted), for every value the host can return.          *)

\* what the host answered to the n-th request of round i
HostAnswers(st, i, n) ==
    {m \in 1..Len(st.outcomes) : st.outcomes[m].i = i /\ st.outcomes[m].k = n}

\* the requests that have their ToolResult: <<j, n>> is the n-th request of
\* the Assistant turn at j
Answered(log) ==
    UNION {{<<j, n>> : n \in {q \in 1..Len(log[j].tool_calls) : j + q <= Len(log)}} :
              j \in AssistantPositions(log)}

C15_NotFoundOnlyWhenAbsent ==
    \A r \in Runs :
        LET log == run[r].messages
        IN  \A jn \in Answered(log) :
                LET call == log[jn[1]].tool_calls[jn[2]]
                    text == log[jn[1] + jn[2]].content
                    answers == HostAnswers(run[r], Ordinal(log, jn[1]), jn[2])
                IN  /\ call.name \in CatalogNames =>
                          \E m \in answers :
                              text = IF run[r].outcomes[m].kind = "text"
                                     THEN run[r].outcomes[m].value
                                     ELSE "Error executing tool: "
                                             \o run[r].outcomes[m].value
                    /\ text = "Tool " \o call.name \o " not found" =>
                          (call.name \notin CatalogNames /\ answers = {})

(* C15 as the code has it: the ToolResult of a catalog tool carries the    *)
(* text the invocation returned, unchanged, or "Error executing tool:     *)
(* <message>" when it raised; ask() puts its own "Tool <name> not found"  *)
(* in place of a result only for a name absent from the catalog, without  *)
(* contacting the host.  A host text that itself reads "Tool <name> not   *)
(* found" is forwarded like any other, so that text can stand in the log  *)
(* for a catalog tool.                                                    *)

C15_ResultIsHostsOrFault ==
    \A r \in Runs :
        LET log == run[r].messages
        IN  \A jn \in Answered(log) :
                LET call == log[jn[1]].tool_calls[jn[2]]
                    result == log[jn[1] + jn[2]]
                    answers == HostAnswers(run[r], Ordinal(log, jn[1]), jn[2])
                IN  /\ result.role = "tool"
                    /\ result.tool_call_id = call.id
                    /\ call.name \in CatalogNames =>
                          /\ Cardinality(answers) = 1
                          /\ \A m \in answers :
                                result.content =
                                   IF run[r].outcomes[m].kind = "text"
                                   THEN run[r].outcomes[m].value
                                   ELSE "Error executing tool: "
                                           \o run[r].outcomes[m].value
                    /\ call.name \notin CatalogNames =>
                          /\ answers = {}
                          /\ result.content = "Tool " \o call.name \o " not found"

\* the host answered a call of get_forecast, a tool of the catalog, with the
\* text "Tool get_forecast not found"; it was appended and the run went on
C15_Witness ==
    \E r \in Runs :
        LET log == run[r].messages
        IN  /\ run[r].pc = "engine"
            /\ "get_forecast" \in CatalogNames
            /\ \E j \in AssistantPositions(log) :
                  /\ j + 1 <= Len(log)
                  /\ log[j].tool_calls[1].name = "get_forecast"
                  /\ log[j + 1].content = "Tool get_forecast not found"
                  /\ HostAnswers(run[r], Ordinal(log, j), 1) # {}

----------------------------------------------------------------------------
(* C16 as stated: when the 10th engine response carries tool calls, each  *)
(* of them is still dispatched (the host is contacted for each known      *)
(* tool) and one ToolResult per request is appended before ask() returns  *)
(* the apology; the final log of such a run ends with the ToolResults of  *)
(* round 10, which no engine invocation receives, and the last tool       *)
(* invocation of the run happens after its last engine invocation.        *)

RoundLimitExceeded(st) ==
    /\ st.pc = "done"
    /\ st.result = [kind |-> "returned",
                    value |-> "Sorry, I couldn't process your request. Please try again."]

\* the 10th Assistant turn is followed by one ToolResult per request, to the
\* end of the log; each known tool of the round was invoked; the log the
\* engine was last handed stops short of the 10th Assistant turn
RoundTenDispatched(st) ==
    LET log == st.messages
        j == LastAssistant(log)
        calls == log[j].tool_calls
    IN  /\ st.engineCalls = 10
        /\ Ordinal(log, j) = 10
        /\ calls # <<>>
        /\ Len(log) = j + Len(calls)
        /\ \A n \in 1..Len(calls) :
              /\ log[j + n].role = "tool"
              /\ log[j + n].tool_call_id = calls[n].id
              /\ calls[n].name \in CatalogNames =>
                    Cardinality(HostAnswers(st, 10, n)) = 1
        /\ st.sent = SubSeq(log, 1, j - 1)
        /\ st.inflight = {}

\* the rounds in which a tool was invoked
ToolRounds(st) == {st.outcomes[m].i : m \in 1..Len(st.outcomes)}

C16_LastToolAfterLastEngine ==
    \A r \in Runs :
        RoundLimitExceeded(run[r]) =>
            /\ RoundTenDispatched(run[r])
            /\ ToolRounds(run[r]) # {} => 10 \in ToolRounds(run[r])

(* C16 as the code has it: the same, except that the last tool invocation *)
(* follows the last engine invocation only when round 10 asks for a tool  *)
(* of the catalog.  Requests naming unknown tools are answered without a  *)
(* tool invocation, so after a round 10 of unknown names only, the last   *)
(* tool invocation of the run, if there was any, precedes the last engine *)
(* invocation.                                                            *)

AsksForKnownTool(st, i) ==
    LET calls == st.messages[AssistantAt(st.messages, i)].tool_calls
    IN  \E n \in 1..Len(calls) : calls[n].name \in CatalogNames

C16_RoundTenStillDispatched ==
    \A r \in Runs :
        RoundLimitExceeded(run[r]) =>
            /\ RoundTenDispatched(run[r])
            /\ 10 \in ToolRounds(run[r]) <=> AsksForKnownTool(run[r], 10)

\* the apology after a round 10 that asked for an unknown and a known tool
C16_Witness ==
    \E r \in Runs :
        /\ RoundLimitExceeded(run[r])
        /\ Len(run[r].response.tool_calls) = 2
        /\ run[r].response.tool_calls[1].name = "get_uv_index"
        /\ run[r].response.tool_calls[2].name = "get_forecast"
        /\ 10 \in ToolRounds(run[r])
        /\ Len(run[r].messages) > Len(run[r].sent) + 2

----------------------------------------------------------------------------
(* C17: when the engine invocation of round k raises, the fault leaves    *)
(* ask(): the run ends with the fault raised to the caller, returning     *)
(* neither a final answer nor the apology; nothing is appended for round  *)
(* k, and no engine or tool invocation follows.  Only the faults of tool  *)
(* invocations become conversational content.                             *)

EngineFaulted(st) == st.engineFault # ""

C17_FaultLeavesAsk ==
    \A r \in Runs :
        EngineFaulted(run[r]) =>
            /\ run[r].pc = "failed"
            /\ run[r].result = [kind |-> "raised", value |-> run[r].engineFault]
            /\ run[r].messages = run[r].sent
            /\ run[r].engineCalls = run[r].i
            /\ Cardinality(AssistantPositions(run[r].messages)) = run[r].i - 1
            /\ run[r].inflight = {}
            /\ Len(run[r].toolCalls) = Len(run[r].outcomes)
            /\ \A p \in 1..Len(run[r].messages) :
                  /\ run[r].messages[p].content # "engine fault"
                  /\ run[r].messages[p].content # "Error executing tool: engine fault"

\* the step in which the engine invocation raises changes nothing of the
\* frame but its position and result; a frame that has failed changes only
\* when a caller starts a new ask() in it
C17_FaultStep ==
    \A r \in Runs :
        /\ (~EngineFaulted(run[r]) /\ EngineFaulted(run'[r])) =>
              /\ run[r].pc = "engine"
              /\ run'[r] = [run[r] EXCEPT !.pc = "failed", !.inflight = {},
                                          !.engineFault = run'[r].engineFault,
                                          !.result = [kind |-> "raised",
                                                      value |-> run'[r].engineFault]]
        /\ run[r].pc = "failed" =>
              (run'[r] = run[r] \/ env'.epoch[r] # env.epoch[r])

C17_EngineFaultPropagates == []C17_FaultLeavesAsk /\ [][C17_FaultStep]_vars

\* the engine raised in round 3, after a round in which a tool's fault had
\* been turned into a ToolResult
C17_Witness ==
    \E r \in Runs :
        /\ EngineFaulted(run[r])
        /\ run[r].i = 3
        /\ \E p \in 1..Len(run[r].messages) :
              run[r].messages[p].content = "Error executing tool: timeout"

----------------------------------------------------------------------------
(* C18: when two runs of ask() on the same WeatherApp interleave at their *)
(* awaits (engine invocation, tool invocation), the log of each run holds *)
(* only its own System and User turn, the Assistant turns returned to it  *)
(* and the ToolResults of its own requests; a step of one run never       *)
(* changes the other's log, and each run on its own keeps the             *)
(* request/result matching and the bound of 10 engine invocations.        *)

\* the Assistant turns the engine has returned to the run so far
Returned(st) ==
    IF st.pc = "engine" \/ st.engineFault # ""
    THEN st.engineCalls - 1
    ELSE st.engineCalls

\* the ToolResult turns of the log that answer a request for a known tool,
\* and those that answer a request for an unknown one
ResultsOf(log, names) ==
    {jn \in Answered(log) : log[jn[1]].tool_calls[jn[2]].name \in names}

C18_OwnTurnsOnly ==
    \A r \in Runs :
        LET log == run[r].messages
        IN  /\ run[r].engineCalls <= 10
            /\ log # <<>> =>
                  /\ Len(log) >= 2
                  /\ log[1] = Turn("system", SystemMsg, <<>>, "")
                  /\ log[2] = Turn("user", env.asked[r], <<>>, "")
                  /\ env.asked[r] = QuestionOf(r)
                  /\ \A p \in 3..Len(log) : log[p].role \in {"assistant", "tool"}
                  /\ Cardinality(AssistantPositions(log)) = Returned(run[r])
                  /\ Cardinality(ResultsOf(log, CatalogNames)) = Len(run[r].outcomes)
                  /\ run[r].pc = "engine" => NoUnansweredRequest(log)

\* a step of one run leaves the frame of the other as it is
C18_StepIsLocal ==
    \A r \in Runs : \A q \in Runs \ {r} :
        run'[r] # run[r] => run'[q] = run[q]

C18_RunsAreIsolated == []C18_OwnTurnsOnly /\ [][C18_StepIsLocal]_vars

\* both runs under way: one awaits its second tool invocation, the other
\* its third engine invocation
C18_Witness ==
    /\ run["r1"].pc = "tool"
    /\ run["r1"].i = 2
    /\ run["r2"].pc = "engine"
    /\ run["r2"].i = 3
    /\ run["r1"].messages[2].content = "weather in Paris?"
    /\ run["r2"].messages[2].content = "weather in Tokyo?"

----------------------------------------------------------------------------
(* Reading the catalog and the tools converted from it *)

\* the n-th tool of the session was converted from the n-th tool listed
Converted == {n \in 1..Len(app.tools) : app.tools[n].name = env.catalog[n].name}

SchemaOf(n) == env.catalog[n].inputSchema

Parameters(n) == app.tools[n].args_schema.fields

DeclaresNothing(schema) ==
    "properties" \notin DOMAIN schema \/ schema.properties = <<>>

Declares(schema, name) ==
    /\ "properties" \in DOMAIN schema
    /\ \E p \in 1..Len(schema.properties) : schema.properties[p] = name

ListsAsRequired(schema, name) ==
    /\ "required" \in DOMAIN schema
    /\ \E p \in 1..Len(schema.required) : schema.required[p] = name

----------------------------------------------------------------------------
(* C11: for every tool whose input schema declares an empty property set, *)
(* or has no "properties" key at all, the derived invocation contract has *)
(* no parameters, whatever the schema's required-field list contains.     *)

C11_NoPropertiesNoParameters ==
    /\ Converted = 1..Len(app.tools)
    /\ app.setup = "ok" => Len(app.tools) = Len(env.catalog)
    /\ \A n \in Converted :
          DeclaresNothing(SchemaOf(n)) => Parameters(n) = <<>>

\* converted: a schema without a "properties" key that lists required names
C11_Witness ==
    /\ app.setup = "ok"
    /\ \E n \in Converted :
          /\ "properties" \notin DOMAIN SchemaOf(n)
          /\ ListsAsRequired(SchemaOf(n), "days")

----------------------------------------------------------------------------
(* C12: the conversation log of a run is append-only.  Every step of the  *)
(* run (engine response, tool result, termination) leaves the turns       *)
(* appended so far unchanged in content and position, so an earlier log   *)
(* is a prefix of every later one, and the log handed to engine           *)
(* invocation k is a strict prefix of the log handed to invocation k+1.   *)

IsPrefix(a, b) == Len(a) <= Len(b) /\ SubSeq(b, 1, Len(a)) = a

\* the step belongs to the run under way in frame r: no new ask() starts
SameRun(r) == env'.epoch[r] = env.epoch[r]

InvokesEngineAgain(r) ==
    /\ run[r].engineCalls >= 1
    /\ run'[r].engineCalls = run[r].engineCalls + 1

C12_StepExtendsLog ==
    \A r \in Runs :
        SameRun(r) =>
            /\ IsPrefix(run[r].messages, run'[r].messages)
            /\ InvokesEngineAgain(r) =>
                  /\ run'[r].sent = run'[r].messages
                  /\ IsPrefix(run[r].sent, run'[r].sent)
                  /\ Len(run[r].sent) < Len(run'[r].sent)

C12_SentIsPrefix == \A r \in Runs : IsPrefix(run[r].sent, run[r].messages)

C12_AppendOnly == []C12_SentIsPrefix /\ [][C12_StepExtendsLog]_vars

\* the third engine invocation of a run, handed a log of six turns or more
C12_Witness ==
    \E r \in Runs :
        /\ run[r].pc = "engine"
        /\ run[r].engineCalls = 3
        /\ run[r].sent = run[r].messages
        /\ Len(run[r].sent) >= 6

----------------------------------------------------------------------------
(* C13: for every tool schema with a non-empty property set that does not *)
(* contain "city", the derived contract has exactly one parameter per     *)
(* declared property (same names, none added or dropped); a parameter is  *)
(* required if and only if its name is in the schema's required-field     *)
(* list, and the others are optional with an absent (None) default.       *)

C13_OneParameterPerProperty ==
    \A n \in Converted :
        LET schema == SchemaOf(n)
            fields == Parameters(n)
        IN  (~DeclaresNothing(schema) /\ ~Declares(schema, "city")) =>
              /\ Len(fields) = Len(schema.properties)
              /\ {fields[p].name : p \in 1..Len(fields)}
                    = {schema.properties[p] : p \in 1..Len(schema.properties)}
              /\ \A p \in 1..Len(fields) :
                    /\ fields[p].required <=> ListsAsRequired(schema, fields[p].name)
                    /\ fields[p].required => fields[p].default = "undefined"
                    /\ ~fields[p].required => fields[p].default = "None"

\* converted: two properties, one of them required, and a required name
\* that is no property
C13_Witness ==
    /\ app.setup = "ok"
    /\ \E n \in Converted :
          /\ SchemaOf(n) = [properties |-> <<"days", "units">>,
                            required |-> <<"zip", "units">>]
          /\ Len(Parameters(n)) = 2

----------------------------------------------------------------------------
(* C14: for every tool schema that declares "city", the derived contract  *)
(* is exactly one required parameter named "city", whether or not "city"  *)
(* is in the required-field list and whatever other properties the schema *)
(* declares (they do not appear in the contract).                         *)

C14_CityAlone ==
    \A n \in Converted :
        Declares(SchemaOf(n), "city") =>
            /\ Len(Parameters(n)) = 1
            /\ Parameters(n)[1].name = "city"
            /\ Parameters(n)[1].required
            /\ Parameters(n)[1].default = "undefined"

\* converted: "city" declared next to another property, and not required
C14_Witness ==
    /\ app.setup = "ok"
    /\ \E n \in Converted :
          /\ Declares(SchemaOf(n), "city")
          /\ Declares(SchemaOf(n), "days")
          /\ ~ListsAsRequired(SchemaOf(n), "city")
          /\ Len(Parameters(n)) = 1
====
